---- MODULE Spec2Model ----
(***************************************************************************)
(* Steady-state evolutionary search for cellular-automaton seeds           *)
(* (selection-and-evolvability.py, the three-colour script, and            *)
(* spots-and-stripes.py, the two-colour script).  Both scripts share the   *)
(* same main program: bootstrap of generation zero, max_births birth/death *)
(* iterations, a final scan for the best member and its export.  They      *)
(* differ in make_seed_matrix, mutate_seed, compare, the target and the    *)
(* Golly rule.  The variable "variant" says which script is running.       *)
(*                                                                         *)
(* The settings are scaled down: the grid that the scripts fix at 60x60 is *)
(* adult_size x adult_size with adult_size = 3, the seed is 1x1 (2x2 in    *)
(* the runs of TwoCellSpec), and the population, the number of births and  *)
(* the sample size are small.                                              *)
(* Every rand.random() < p test is a Boolean chosen by the environment and *)
(* every rand.randrange(population_size) an index chosen by it.            *)
(***************************************************************************)
EXTENDS Integers, Sequences, FiniteSets, TLC

\* ------------------------------------------------------------------ bounds
MaxPop == 3
MaxBirths == 2
MaxSample == 2
MaxSteps == 1
MaxSeed == 2

\* ---------------------------------------------------------------- settings
adult_size == 3
\* the literal 60 that compare() and show_target() require of every grid
RequiredSize == 3

\* ----------------------------------------------------------------- colours
white == 0
red == 1
blue == 2
black == 1

Variants == {"three", "two"}

Idx(n) == 0 .. (n - 1)

Colours(v) == IF v = "three" THEN {white, red, blue} ELSE {white, black}

\* np.zeros([rows, cols], dtype=int)
Zeros(rows, cols) == [i \in Idx(rows) |-> [j \in Idx(cols) |-> 0]]

BoolGrids(n) == [Idx(n) -> [Idx(n) -> BOOLEAN]]

\* ------------------------------------------------------------ SeedFactory
\* (variant of make_seed_matrix3: the tie is not broken, so blue, written
\* last, takes the cell when both colours win)
make_seed_matrix3_NoTieBreak(red_win, blue_win, tie, size) ==
  [i \in Idx(size) |-> [j \in Idx(size) |->
     IF blue_win[i][j] THEN blue ELSE IF red_win[i][j] THEN red ELSE white]]

\* (variant of make_seed_matrix2: the tie is not broken, so black, written
\* last, takes the cell when both colours win)
make_seed_matrix2_NoTieBreak(white_win, black_win, tie, size) ==
  [i \in Idx(size) |-> [j \in Idx(size) |->
     IF black_win[i][j] THEN black ELSE IF white_win[i][j] THEN white ELSE 0]]

\* Three-colour make_seed_matrix: red_win, blue_win are the outcomes of the
\* two biased coins of each cell, tie the outcome of rand.random() < 0.5,
\* which is drawn only when both colours win.
make_seed_matrix3(red_win, blue_win, tie, size) ==
  [i \in Idx(size) |-> [j \in Idx(size) |->
     LET both == red_win[i][j] /\ blue_win[i][j]
         red_state == IF both THEN ~tie[i][j] ELSE red_win[i][j]
         blue_state == IF both THEN tie[i][j] ELSE blue_win[i][j]
     IN  IF blue_state THEN blue ELSE IF red_state THEN red ELSE white]]

\* Two-colour make_seed_matrix: the same two coins and tie-break; the cell is
\* written white when white_state is set and then black when black_state is.
make_seed_matrix2(white_win, black_win, tie, size) ==
  [i \in Idx(size) |-> [j \in Idx(size) |->
     LET both == white_win[i][j] /\ black_win[i][j]
         white_state == IF both THEN ~tie[i][j] ELSE white_win[i][j]
         black_state == IF both THEN tie[i][j] ELSE black_win[i][j]
     IN  IF black_state THEN black ELSE IF white_state THEN white ELSE 0]]

make_seed_matrix(v, win1, win2, tie, size) ==
  IF v = "three" THEN make_seed_matrix3(win1, win2, tie, size)
  ELSE make_seed_matrix2(win1, win2, tie, size)

\* The calls of rand.random() one call of make_seed_matrix makes, in either
\* script: the two biased coins of every cell, and the tie-break coin of the
\* cells where both win.
make_seed_draws(win1, win2, size) ==
  2 * size * size
  + Cardinality({c \in Idx(size) \X Idx(size) :
                   win1[c[1]][c[2]] /\ win2[c[1]][c[2]]})

\* -------------------------------------------------------- MutationOperator
\* (variant of mutate_seed3: the else branches are missing, so a selected cell
\* whose coin fails keeps the zero new_matrix was made with)
mutate_seed3_NoElse(seed_matrix, sel, coin) ==
  LET rows == Cardinality(DOMAIN seed_matrix)
      cols == Cardinality(DOMAIN seed_matrix[0])
  IN [i \in Idx(rows) |-> [j \in Idx(cols) |->
        IF sel[i][j]
        THEN IF seed_matrix[i][j] = red
             THEN (IF coin[i][j] THEN blue ELSE 0)
             ELSE IF seed_matrix[i][j] = blue
             THEN (IF coin[i][j] THEN red ELSE 0)
             ELSE (IF coin[i][j] THEN red ELSE 0)
        ELSE seed_matrix[i][j]]]

\* sel[i][j] is the outcome of rand.random() < prob_mutation for the cell,
\* coin[i][j] the outcome of the following rand.random() < 0.5.
mutate_seed3(seed_matrix, sel, coin) ==
  LET rows == Cardinality(DOMAIN seed_matrix)
      cols == Cardinality(DOMAIN seed_matrix[0])
  IN [i \in Idx(rows) |-> [j \in Idx(cols) |->
        IF sel[i][j]
        THEN IF seed_matrix[i][j] = red
             THEN (IF coin[i][j] THEN blue ELSE white)
             ELSE IF seed_matrix[i][j] = blue
             THEN (IF coin[i][j] THEN red ELSE white)
             ELSE (IF coin[i][j] THEN red ELSE blue)
        ELSE seed_matrix[i][j]]]

\* (variant of mutate_seed2: the copy of the cells that are not selected is
\* missing, so they keep the zero new_matrix was made with)
mutate_seed2_NoCopy(seed_matrix, sel, coin) ==
  LET rows == Cardinality(DOMAIN seed_matrix)
      cols == Cardinality(DOMAIN seed_matrix[0])
  IN [i \in Idx(rows) |-> [j \in Idx(cols) |->
        IF sel[i][j]
        THEN IF seed_matrix[i][j] = white
             THEN (IF coin[i][j] THEN black ELSE Zeros(rows, cols)[i][j])
             ELSE (IF coin[i][j] THEN white ELSE Zeros(rows, cols)[i][j])
        ELSE Zeros(rows, cols)[i][j]]]

\* In the two-colour script new_matrix starts as zeros and a selected cell is
\* assigned only when its coin succeeds; otherwise the zero stays.
mutate_seed2(seed_matrix, sel, coin) ==
  LET rows == Cardinality(DOMAIN seed_matrix)
      cols == Cardinality(DOMAIN seed_matrix[0])
  IN [i \in Idx(rows) |-> [j \in Idx(cols) |->
        IF sel[i][j]
        THEN IF seed_matrix[i][j] = white
             THEN (IF coin[i][j] THEN black ELSE Zeros(rows, cols)[i][j])
             ELSE (IF coin[i][j] THEN white ELSE Zeros(rows, cols)[i][j])
        ELSE seed_matrix[i][j]]]

mutate_seed(v, seed_matrix, sel, coin) ==
  IF v = "three" THEN mutate_seed3(seed_matrix, sel, coin)
  ELSE mutate_seed2(seed_matrix, sel, coin)

\* ------------------------------------------------------------ GrowthOracle
\* The Golly universe is the torus T60,60 (here adult_size x adult_size); the
\* cell with Golly coordinates (x, y) is kept at index [x - left][y - top].
left == 0 - (adult_size \div 2)
top == 0 - (adult_size \div 2)

Offsets == {d \in (-1 .. 1) \X (-1 .. 1) : d # <<0, 0>>}

Neighbour(universe, x, y, d) ==
  universe[(x + d[1]) % adult_size][(y + d[2]) % adult_size]

\* Number of the eight neighbours of (x, y) that hold a state of the set.
CountNeighbours(universe, x, y, states) ==
  Cardinality({d \in Offsets : Neighbour(universe, x, y, d) \in states})

\* Birth and survival counts of the rule each script sets: "Immigration"
\* (B3/S23, a newborn takes the majority colour of its three parents) and
\* "B3/S45678".
Birth(v) == {3}
Survival(v) == IF v = "three" THEN {2, 3} ELSE {4, 5, 6, 7, 8}

\* One synchronous step of the rule over the torus.
GollyStep(v, universe) ==
  [x \in Idx(adult_size) |-> [y \in Idx(adult_size) |->
     LET n == CountNeighbours(universe, x, y, Colours(v) \ {white})
         r == CountNeighbours(universe, x, y, {red})
     IN  IF universe[x][y] # white
         THEN (IF n \in Survival(v) THEN universe[x][y] ELSE white)
         ELSE IF n \in Birth(v)
              THEN (IF v = "three" THEN (IF r >= 2 THEN red ELSE blue) ELSE black)
              ELSE white]]

\* golly.run(steps)
RECURSIVE GollyRun(_, _, _)
GollyRun(v, universe, steps) ==
  IF steps = 0 THEN universe
  ELSE GollyRun(v, GollyStep(v, universe), steps - 1)

\* grow_matrix: write the seed around the origin, run, read the box back.
grow_matrix(v, seed_matrix, steps, size) ==
  LET seed_size == Cardinality(DOMAIN seed_matrix)
      seed_offset == seed_size \div 2
      \* golly.setcell(i - seed_offset, j - seed_offset, colour)
      written == [x \in Idx(size) |-> [y \in Idx(size) |->
                    LET i == x + left + seed_offset
                        j == y + top + seed_offset
                    IN  IF i \in Idx(seed_size) /\ j \in Idx(seed_size)
                        THEN seed_matrix[i][j] ELSE white]]
      grown == GollyRun(v, written, steps)
  IN  \* grown_matrix[i][j] = golly.getcell(i + left, j + top)
      [i \in Idx(size) |-> [j \in Idx(size) |-> grown[i][j]]]

\* ----------------------------------------------------------------- targets
\* target_3() of the three-colour script: vertical bands red, blue, red, each
\* a third of the width.
target_3 ==
  [i \in Idx(adult_size) |-> [j \in Idx(adult_size) |->
     IF j < adult_size \div 3 THEN red
     ELSE IF j < 2 * (adult_size \div 3) THEN blue
     ELSE red]]

\* target_1() of the two-colour script: four boxes black, white / white, black.
target_1 ==
  LET half == adult_size \div 2
  IN [i \in Idx(adult_size) |-> [j \in Idx(adult_size) |->
        IF j < half /\ i < half THEN black
        ELSE IF j < half /\ i >= half THEN white
        ELSE IF j >= half /\ i < half THEN white
        ELSE black]]

Target(v) == IF v = "three" THEN target_3 ELSE target_1

\* -------------------------------------------------------- FitnessEvaluator
\* (variant of Count: the loops stop one row and one column short)
Count_ShortLoop(adult, target, size, a, t) ==
  Cardinality({c \in Idx(size - 1) \X Idx(size - 1) :
                 adult[c[1]][c[2]] = a /\ target[c[1]][c[2]] = t})

\* Number of cells where the adult has colour a and the target colour t.
Count(adult, target, size, a, t) ==
  Cardinality({c \in Idx(size) \X Idx(size) :
                 adult[c[1]][c[2]] = a /\ target[c[1]][c[2]] = t})

\* (variant of CompareAsserts: the assertion on adult_size is missing)
CompareAsserts_GridsOnly(adult, target, size) ==
  /\ Cardinality(DOMAIN adult) = RequiredSize
  /\ Cardinality(DOMAIN adult[0]) = RequiredSize
  /\ Cardinality(DOMAIN target) = RequiredSize
  /\ Cardinality(DOMAIN target[0]) = RequiredSize

\* The assertions at the head of compare().
CompareAsserts(adult, target, size) ==
  /\ size = RequiredSize
  /\ Cardinality(DOMAIN adult) = RequiredSize
  /\ Cardinality(DOMAIN adult[0]) = RequiredSize
  /\ Cardinality(DOMAIN target) = RequiredSize
  /\ Cardinality(DOMAIN target[0]) = RequiredSize

\* (variant of compare3: the false counts are counted up, not down)
compare3_FalseCountedUp(adult, target, size) ==
  IF ~CompareAsserts(adult, target, size)
  THEN [ok |-> FALSE, fitness |-> 0, true_blue |-> 0, true_red |-> 0,
        false_blue |-> 0, false_red |-> 0]
  ELSE LET bb == Count(adult, target, size, blue, blue)
           rr == Count(adult, target, size, red, red)
           br == Count(adult, target, size, blue, red)
           rb == Count(adult, target, size, red, blue)
       IN [ok |-> TRUE,
           fitness |-> bb + rr - br - rb,
           true_blue |-> bb,
           true_red |-> rr,
           false_blue |-> br,
           false_red |-> rb]

\* Three-colour compare: [fitness, true_blue, true_red, false_blue, false_red];
\* ok is FALSE when an assertion fails.
compare3(adult, target, size) ==
  IF ~CompareAsserts(adult, target, size)
  THEN [ok |-> FALSE, fitness |-> 0, true_blue |-> 0, true_red |-> 0,
        false_blue |-> 0, false_red |-> 0]
  ELSE LET bb == Count(adult, target, size, blue, blue)
           rr == Count(adult, target, size, red, red)
           br == Count(adult, target, size, blue, red)
           rb == Count(adult, target, size, red, blue)
       IN [ok |-> TRUE,
           fitness |-> bb + rr - br - rb,
           true_blue |-> bb,
           true_red |-> rr,
           false_blue |-> 0 - br,
           false_red |-> 0 - rb]

\* (variant of compare2: every mismatch is counted, white on black too)
compare2_Mismatch(adult, target, size) ==
  IF ~CompareAsserts(adult, target, size)
  THEN [ok |-> FALSE, black_on_black |-> 0, black_on_white |-> 0]
  ELSE [ok |-> TRUE,
        black_on_black |-> Count(adult, target, size, black, black),
        black_on_white |-> Count(adult, target, size, black, white)
                           + Count(adult, target, size, white, black)]

\* Two-colour compare: [black_on_black, black_on_white].
compare2(adult, target, size) ==
  IF ~CompareAsserts(adult, target, size)
  THEN [ok |-> FALSE, black_on_black |-> 0, black_on_white |-> 0]
  ELSE [ok |-> TRUE,
        black_on_black |-> Count(adult, target, size, black, black),
        black_on_white |-> Count(adult, target, size, black, white)]

\* What the main program computes from compare(): whether the call (and, in
\* the three-colour script, the assertion on the four counts) passed, and the
\* fitness.
Score(v, adult, target, size) ==
  IF v = "three"
  THEN LET c == compare3(adult, target, size)
       IN [ok |-> c.ok /\ c.fitness = c.true_blue + c.true_red
                                      + c.false_blue + c.false_red,
           fitness |-> c.fitness]
  ELSE LET c == compare2(adult, target, size)
       IN [ok |-> c.ok, fitness |-> c.black_on_black - c.black_on_white]

\* ------------------------------------------------------------------- state
VARIABLES
  variant,            \* which script runs: "three" or "two"
  population_size,    \* setting
  max_births,         \* setting
  evolvability,       \* setting: rows and columns of a seed
  num_steps,          \* setting: steps of the automaton per growth
  sample_size,        \* setting
  pc,                 \* position in the main program
  population,         \* list of [seed, adult, fitness]; slot p is population[p + 1]
  sample_set,         \* bootstrap: the samples of the current individual
  new_birth,          \* steady-state loop counter
  position1, position2, fitness1, fitness2,
  least_fit_pos, most_fit_pos,   \* mutate_and_select_seed's choice
  mut_sel, mut_coin,  \* the draws mutate_seed consumed in this iteration
  child,              \* the seed mutate_and_select_seed returned (seed1 / seed2)
  k, rescored,        \* final scan: index and the fitness recomputed last
  best_fitness_so_far, best_seed_so_far, best_adult_so_far,
  emitted,            \* the seed and adult written out at the end
  \* history
  cmp,                \* how fitness1 compared to fitness2 when they were drawn
  replaced_pos,       \* slot of the latest whole-record replace
  replaces,           \* number of whole-record replaces so far
  stale,              \* slots whose seed was overwritten in place since their
                      \* last whole-record write
  checks,             \* times the assertions on sample_size were evaluated
  grows,              \* calls of grow_matrix so far
  events,             \* the index draws and the calls of mutate_seed and
                      \* grow_matrix of the current iteration, in order
  call                \* a single call of mutate_seed or compare: the function,
                      \* its arguments and, once it returned, its result

vars == <<variant, population_size, max_births, evolvability,
          num_steps, sample_size, pc, population, sample_set, new_birth,
          position1, position2, fitness1, fitness2, least_fit_pos, most_fit_pos,
          mut_sel, mut_coin, child, k, rescored, best_fitness_so_far,
          best_seed_so_far, best_adult_so_far, emitted, cmp, replaced_pos,
          replaces, stale, checks, grows, events, call>>

config == <<variant, population_size, max_births, evolvability,
           num_steps, sample_size>>
bootVars == <<sample_set>>
iterVars == <<position1, position2, fitness1, fitness2, least_fit_pos,
              most_fit_pos, mut_sel, mut_coin, child, cmp, replaced_pos>>
finalVars == <<k, rescored, best_fitness_so_far, best_seed_so_far,
               best_adult_so_far, emitted>>
auxVars == <<checks, grows, call>>

\* a name that is not bound yet
Unbound == <<>>
\* no single function call is under way
NoCall == [fn |-> "none"]
NoPos == 0 - 1

Positions == Idx(population_size)

\* The sample sizes tried: a negative one, those up to the bound and one that
\* is larger than the population.
SampleSizes == ((0 - 1) .. MaxSample) \cup {population_size + 1}

\* population[pos] of the script
At(pop, pos) == pop[pos + 1]

Member(seed, adult, fitness) == [seed |-> seed, adult |-> adult, fitness |-> fitness]

Init ==
  /\ variant \in Variants
  /\ population_size = MaxPop
  /\ max_births = MaxBirths
  /\ evolvability = 1
  /\ num_steps \in 0 .. MaxSteps
  /\ sample_size \in SampleSizes
  /\ pc = "boot"
  /\ population = <<>>
  /\ sample_set = <<>>
  /\ new_birth = 0
  /\ position1 = NoPos /\ position2 = NoPos
  /\ fitness1 = 0 /\ fitness2 = 0
  /\ least_fit_pos = NoPos /\ most_fit_pos = NoPos
  /\ mut_sel = Unbound /\ mut_coin = Unbound /\ child = Unbound
  /\ k = 0 /\ rescored = 0
  /\ best_fitness_so_far = 0
  /\ best_seed_so_far = Unbound /\ best_adult_so_far = Unbound
  /\ emitted = Unbound
  /\ cmp = "none" /\ replaced_pos = NoPos
  /\ replaces = 0
  /\ stale = {}
  /\ checks = 0
  /\ grows = 0
  /\ events = <<>>
  /\ call = NoCall

\* -------------------------------------------------------------- bootstrap
\* (variant of BootContinues: the loop stops one individual short)
BootOneLess(n) == n + 1 < population_size

\* for individual in range(population_size): n individuals are done
BootContinues(n) == n < population_size

\* for individual in range(population_size): sample_set = []
BootBegin ==
  /\ pc = "boot"
  /\ BootContinues(Len(population))
  /\ sample_set' = <<>>
  /\ pc' = "sample"
  /\ UNCHANGED <<config, events, auxVars, population, new_birth, iterVars, finalVars, replaces, stale>>

\* One pass of "for sample in range(sample_size)": make, grow and score a seed.
BootSample ==
  /\ pc = "sample"
  /\ Len(sample_set) < sample_size
  /\ \E win1, win2, tie \in BoolGrids(evolvability) :
       \E seed \in {make_seed_matrix(variant, win1, win2, tie, evolvability)} :
       \E adult \in {grow_matrix(variant, seed, num_steps, adult_size)} :
       \E sc \in {Score(variant, adult, Target(variant), adult_size)} :
           IF sc.ok
           THEN /\ sample_set' = Append(sample_set, Member(seed, adult, sc.fitness))
                /\ pc' = "sample"
           ELSE /\ sample_set' = sample_set
                /\ pc' = "abort"
  /\ grows' = grows + 1
  /\ UNCHANGED <<config, events, checks, call, population, new_birth, iterVars, finalVars, replaces, stale>>

\* (variant of Insert: a later element goes in front of its equals)
RECURSIVE InsertBeforeEquals(_, _)
InsertBeforeEquals(sorted, x) ==
  IF sorted = <<>> THEN <<x>>
  ELSE IF sorted[Len(sorted)].fitness < x.fitness THEN Append(sorted, x)
  ELSE Append(InsertBeforeEquals(SubSeq(sorted, 1, Len(sorted) - 1), x),
              sorted[Len(sorted)])

\* sorted(sample_set, key=lambda tup: tup[2]): ascending and stable.  Insert
\* puts a later element behind every element whose key is not larger.
RECURSIVE Insert(_, _)
Insert(sorted, x) ==
  IF sorted = <<>> THEN <<x>>
  ELSE IF sorted[Len(sorted)].fitness <= x.fitness THEN Append(sorted, x)
  ELSE Append(Insert(SubSeq(sorted, 1, Len(sorted) - 1), x), sorted[Len(sorted)])

RECURSIVE Sorted(_)
Sorted(samples) ==
  IF samples = <<>> THEN <<>>
  ELSE Insert(Sorted(SubSeq(samples, 1, Len(samples) - 1)), samples[Len(samples)])

\* After the sample loop: sort, take sorted_samples[-1] (an IndexError on an
\* empty list), append it to the population.
BootSelect ==
  /\ pc = "sample"
  /\ Len(sample_set) >= sample_size
  /\ \E sorted_samples \in {Sorted(sample_set)} :
         IF sorted_samples = <<>>
         THEN /\ pc' = "abort"
              /\ population' = population
         ELSE /\ population' = Append(population, sorted_samples[Len(sorted_samples)])
              /\ pc' = "boot"
  /\ UNCHANGED <<config, events, auxVars, sample_set, new_birth, iterVars, finalVars, replaces, stale>>

\* The bootstrap loop is over; the steady-state loop starts.  sample_set is
\* not read again and is cleared.
BootEnd ==
  /\ pc = "boot"
  /\ ~BootContinues(Len(population))
  /\ pc' = "draw"
  /\ new_birth' = 0
  /\ sample_set' = <<>>
  /\ UNCHANGED <<config, events, auxVars, population, iterVars, finalVars, replaces, stale>>

\* ------------------------------------------------------------ steady state
Compare(f1, f2) == IF f1 > f2 THEN "gt" ELSE IF f1 < f2 THEN "lt" ELSE "eq"

\* (variant of LoopContinues: one more pass)
LoopOneMore(n) == n <= max_births

\* (variant of LoopContinues: the loop also stops once two members are equally fit)
LoopUntilTie(n) ==
  n < max_births /\ \A p, q \in Positions :
                       p # q => At(population, p).fitness # At(population, q).fitness

\* for new_birth in range(max_births): n passes are done
LoopContinues(n) == n < max_births

\* Top of "for new_birth in range(max_births)": draw the pair and read it.
SteadyDraw ==
  /\ pc = "draw"
  /\ LoopContinues(new_birth)
  /\ \E p1, p2 \in Positions :
       /\ position1' = p1
       /\ position2' = p2
       /\ fitness1' = At(population, p1).fitness
       /\ fitness2' = At(population, p2).fitness
       /\ cmp' = Compare(At(population, p1).fitness, At(population, p2).fitness)
  /\ replaced_pos' = NoPos
  /\ child' = Unbound
  /\ events' = <<"position1", "position2">>
  /\ pc' = "select"
  /\ UNCHANGED <<config, auxVars, population, bootVars, new_birth, least_fit_pos,
                 most_fit_pos, mut_sel, mut_coin, finalVars, replaces, stale>>

\* (variant of SampleLoop: a sample that equals the extreme so far takes over)
RECURSIVE SampleLoop_LastOnTies(_, _, _, _)
SampleLoop_LastOnTies(pop, least, most, samples) ==
  IF samples = <<>> THEN [least_fit_pos |-> least, most_fit_pos |-> most]
  ELSE LET pos == Head(samples)
           val == At(pop, pos).fitness
           least2 == IF val <= At(pop, least).fitness THEN pos ELSE least
           most2 == IF val >= At(pop, most).fitness THEN pos ELSE most
       IN  SampleLoop_LastOnTies(pop, least2, most2, Tail(samples))

\* The sampling loop of mutate_and_select_seed, from the two initial draws.
RECURSIVE SampleLoop(_, _, _, _)
SampleLoop(pop, least, most, samples) ==
  IF samples = <<>> THEN [least_fit_pos |-> least, most_fit_pos |-> most]
  ELSE LET pos == Head(samples)
           val == At(pop, pos).fitness
           least2 == IF val < At(pop, least).fitness THEN pos ELSE least
           most2 == IF val > At(pop, most).fitness THEN pos ELSE most
       IN  SampleLoop(pop, least2, most2, Tail(samples))

\* (variant of CopySeed: the copy goes from the least fit to the most fit slot)
CopySeedReversed(pop, least, most) ==
  [pop EXCEPT ![most + 1].seed = At(pop, least).seed]

\* (variant of CopySeed: the adult is copied along with the seed)
CopySeedAndAdult(pop, least, most) ==
  [pop EXCEPT ![least + 1].seed = At(pop, most).seed,
              ![least + 1].adult = At(pop, most).adult]

\* (variant of CopySeed: the whole triple is copied)
CopyRecord(pop, least, most) ==
  [pop EXCEPT ![least + 1] = At(pop, most)]

\* population[least_fit_pos][0] = population[most_fit_pos][0]
CopySeed(pop, least, most) ==
  [pop EXCEPT ![least + 1].seed = At(pop, most).seed]

\* (variant of SampleSizeAsserts: the assertion on the upper limit is missing)
SampleSizeLowerOnly(size, pop) == size >= 0

\* assert (sample_size <= population_size); assert (sample_size >= 0), with
\* population_size = len(population)
SampleSizeAsserts(size, pop) == size <= Len(pop) /\ size >= 0

\* (variant of IndexDraws: the two initial positions are not drawn)
IndexDraws_SamplesOnly(size) == [i \in 1 .. size |-> "pos"]

\* The rand.randrange calls of mutate_and_select_seed in the order made: the
\* two initial positions, then one position per pass of the sampling loop.
IndexDraws(size) ==
  <<"least_fit_pos", "most_fit_pos">> \o [i \in 1 .. size |-> "pos"]

\* mutate_and_select_seed up to the in-place copy: the two assertions, the two
\* initial draws, the sample_size sample draws, the copy of the seed.
SelectCopy ==
  /\ pc = "select"
  /\ IF ~SampleSizeAsserts(sample_size, population)
     THEN /\ pc' = "abort"
          /\ UNCHANGED <<population, least_fit_pos, most_fit_pos, stale, events>>
     ELSE \E least0, most0 \in Positions,
             samples \in [1 .. sample_size -> Positions] :
            \E r \in {SampleLoop(population, least0, most0, samples)} :
                /\ least_fit_pos' = r.least_fit_pos
                /\ most_fit_pos' = r.most_fit_pos
                /\ population' = CopySeed(population, r.least_fit_pos,
                                          r.most_fit_pos)
                /\ stale' = stale \cup {r.least_fit_pos}
                /\ events' = events \o IndexDraws(sample_size)
                /\ pc' = "mutate"
  /\ checks' = checks + 1
  /\ UNCHANGED <<config, grows, call, bootVars, new_birth, position1, position2, fitness1,
                 fitness2, mut_sel, mut_coin, child, cmp, replaced_pos,
                 finalVars, replaces>>

\* (variant of ParentSeed: the seed of the first drawn organism is mutated)
ParentSeedDrawn(pop, least) == At(pop, position1).seed

\* seed_matrix = population[least_fit_pos][0]
ParentSeed(pop, least) == At(pop, least).seed

\* The end of mutate_and_select_seed: seed_matrix = population[least_fit_pos][0],
\* mutate it, return it.  The locals of the function end with the call.
Mutate ==
  /\ pc = "mutate"
  /\ \E sel, coin \in BoolGrids(evolvability) :
       \* the coin of a cell is drawn only when the cell is selected
       /\ \A i, j \in Idx(evolvability) : coin[i][j] => sel[i][j]
       /\ child' = mutate_seed(variant, ParentSeed(population, least_fit_pos),
                               sel, coin)
       /\ mut_sel' = sel
       /\ mut_coin' = coin
  /\ least_fit_pos' = NoPos /\ most_fit_pos' = NoPos
  /\ events' = Append(events, "mutate_seed")
  /\ pc' = "grow"
  /\ UNCHANGED <<config, auxVars, population, bootVars, new_birth, position1, position2,
                 fitness1, fitness2, cmp, replaced_pos, finalVars, replaces,
                 stale>>

\* (variant of Loser: the branches write the other slot)
LoserSwapped(f1, f2, p1, p2) == IF f1 > f2 THEN p1 ELSE p2

\* (variant of Loser: the test is fitness1 >= fitness2)
LoserTieSecond(f1, f2, p1, p2) == IF f1 >= f2 THEN p2 ELSE p1

\* The slot the if/else of the loop body writes: position2 in the branch
\* fitness1 > fitness2, position1 in the else branch.
Loser(f1, f2, p1, p2) == IF f1 > f2 THEN p2 ELSE p1

\* (variant of Replace: the new member is appended)
ReplaceByAppend(pop, pos, m) == Append(pop, m)

\* population[position] = [seed, adult, fitness]
Replace(pop, pos, m) == [pop EXCEPT ![pos + 1] = m]

\* Grow and score the returned seed, replace the loser's record.
GrowReplace ==
  /\ pc = "grow"
  /\ \E adult \in {grow_matrix(variant, child, num_steps, adult_size)} :
     \E sc \in {Score(variant, adult, Target(variant), adult_size)} :
     LET loser == Loser(fitness1, fitness2, position1, position2)
     IN  IF sc.ok
         THEN /\ population' = Replace(population, loser,
                                       Member(child, adult, sc.fitness))
              /\ fitness1' = IF fitness1 > fitness2 THEN fitness1 ELSE sc.fitness
              /\ fitness2' = IF fitness1 > fitness2 THEN sc.fitness ELSE fitness2
              /\ replaced_pos' = loser
              /\ replaces' = replaces + 1
              /\ stale' = stale \ {loser}
              /\ new_birth' = new_birth + 1
              /\ pc' = "draw"
         ELSE /\ pc' = "abort"
              /\ UNCHANGED <<population, fitness1, fitness2, replaced_pos,
                             replaces, stale, new_birth>>
  /\ mut_sel' = Unbound /\ mut_coin' = Unbound
  /\ grows' = grows + 1
  /\ events' = Append(events, "grow_matrix")
  /\ UNCHANGED <<config, checks, call, bootVars, position1, position2, least_fit_pos,
                 most_fit_pos, child, cmp, finalVars>>

\* The loop is over: best_fitness_so_far = 0 and the scan starts.  The names
\* of the loop body are not read again and are cleared.
SteadyExit ==
  /\ pc = "draw"
  /\ ~LoopContinues(new_birth)
  /\ best_fitness_so_far' = 0
  /\ k' = 0
  /\ position1' = NoPos /\ position2' = NoPos
  /\ fitness1' = 0 /\ fitness2' = 0
  /\ child' = Unbound
  /\ cmp' = "none" /\ replaced_pos' = NoPos
  /\ pc' = "scan"
  /\ UNCHANGED <<config, events, auxVars, population, bootVars, new_birth, least_fit_pos,
                 most_fit_pos, mut_sel, mut_coin, rescored,
                 best_seed_so_far, best_adult_so_far, emitted, replaces, stale>>

\* ------------------------------------------------------------ finalization
\* One pass of "for k in range(population_size)".
Scan ==
  /\ pc = "scan"
  /\ k < population_size
  /\ \E m \in {At(population, k)} :
     \E sc \in {Score(variant, m.adult, Target(variant), adult_size)} :
         IF ~sc.ok
         THEN /\ pc' = "abort"
              /\ UNCHANGED <<k, rescored, best_fitness_so_far, best_seed_so_far,
                             best_adult_so_far>>
         ELSE /\ rescored' = sc.fitness
              /\ IF sc.fitness > best_fitness_so_far
                 THEN /\ best_fitness_so_far' = sc.fitness
                      /\ best_seed_so_far' = m.seed
                      /\ best_adult_so_far' = m.adult
                 ELSE UNCHANGED <<best_fitness_so_far, best_seed_so_far,
                                  best_adult_so_far>>
              /\ k' = k + 1
              /\ pc' = "scan"
  /\ UNCHANGED <<config, events, auxVars, population, bootVars, new_birth, iterVars, emitted,
                 replaces, stale>>

ScanEnd ==
  /\ pc = "scan"
  /\ k >= population_size
  /\ pc' = "export"
  /\ UNCHANGED <<config, events, auxVars, population, bootVars, new_birth, iterVars, finalVars,
                 replaces, stale>>

\* Show the best seed and grow it again for the adult photo.  Reading
\* best_seed_so_far when no member bound it is a NameError.
Export ==
  /\ pc = "export"
  /\ IF best_seed_so_far = Unbound
     THEN /\ pc' = "abort"
          /\ emitted' = emitted
          /\ grows' = grows
     ELSE /\ emitted' = [seed |-> best_seed_so_far,
                         adult |-> grow_matrix(variant, best_seed_so_far,
                                               num_steps, adult_size)]
          /\ grows' = grows + 1
          /\ pc' = "done"
  /\ UNCHANGED <<config, events, checks, call, population, bootVars, new_birth, iterVars, k, rescored,
                 best_fitness_so_far, best_seed_so_far, best_adult_so_far,
                 replaces, stale>>

Next ==
  \/ BootBegin
  \/ BootSample
  \/ BootSelect
  \/ BootEnd
  \/ SteadyDraw
  \/ SelectCopy
  \/ Mutate
  \/ GrowReplace
  \/ SteadyExit
  \/ Scan
  \/ ScanEnd
  \/ Export

Spec == Init /\ [][Next]_vars

FairSpec == Spec /\ WF_vars(Next)

\* A run of the two-colour script whose seeds have MaxSeed x MaxSeed cells:
\* one member less, one birth less, no growth steps and samples of one seed.
TwoCellInit ==
  /\ variant = "two"
  /\ population_size = MaxPop - 1
  /\ max_births = MaxBirths - 1
  /\ evolvability = MaxSeed
  /\ num_steps = 0
  /\ sample_size = 1
  /\ pc = "boot"
  /\ population = <<>>
  /\ sample_set = <<>>
  /\ new_birth = 0
  /\ position1 = NoPos /\ position2 = NoPos
  /\ fitness1 = 0 /\ fitness2 = 0
  /\ least_fit_pos = NoPos /\ most_fit_pos = NoPos
  /\ mut_sel = Unbound /\ mut_coin = Unbound /\ child = Unbound
  /\ k = 0 /\ rescored = 0
  /\ best_fitness_so_far = 0
  /\ best_seed_so_far = Unbound /\ best_adult_so_far = Unbound
  /\ emitted = Unbound
  /\ cmp = "none" /\ replaced_pos = NoPos
  /\ replaces = 0
  /\ stale = {}
  /\ checks = 0
  /\ grows = 0
  /\ events = <<>>
  /\ call = NoCall

TwoCellSpec == TwoCellInit /\ [][Next]_vars

\* ------------------------------------------------- single function calls
\* make_seed_matrix, mutate_seed and compare called on their own, on every
\* argument of a bounded set: seeds of up to MaxSeed rows and columns with
\* every outcome of the draws, and every adult_size x adult_size adult
\* against the target of the script, against itself and against the grids of
\* one colour.

Grids(rows, cols, colours) == [Idx(rows) -> [Idx(cols) -> colours]]

\* The outcomes of the draws of make_seed_matrix: the tie-break coin of a
\* cell is drawn only when both its biased coins win.
SeedDraws(size) ==
  {d \in [win1 : Grids(size, size, BOOLEAN), win2 : Grids(size, size, BOOLEAN),
          tie : Grids(size, size, BOOLEAN)] :
     \A i, j \in Idx(size) : d.tie[i][j] => (d.win1[i][j] /\ d.win2[i][j])}

\* The outcomes of the draws of mutate_seed: the coin of a cell is drawn only
\* when the cell is selected.
MutationDraws(rows, cols) ==
  {d \in [sel : Grids(rows, cols, BOOLEAN), coin : Grids(rows, cols, BOOLEAN)] :
     \A i \in Idx(rows), j \in Idx(cols) : d.coin[i][j] => d.sel[i][j]}

Uniform(size, colour) == [i \in Idx(size) |-> [j \in Idx(size) |-> colour]]

TargetsFor(v, adult) ==
  {Target(v), adult} \cup {Uniform(adult_size, c) : c \in Colours(v)}

\* Grids of one colour with any number of rows and columns.
UniformRect(rows, cols, colour) ==
  [i \in Idx(rows) |-> [j \in Idx(cols) |-> colour]]

\* The numbers of rows and columns tried around the required one, and the
\* values of the argument adult_size tried.
ShapeSizes == {RequiredSize - 1, RequiredSize, RequiredSize + 1}
SizeArgs == {RequiredSize - 1, RequiredSize}

\* The members that bootstrap can make of a seed of one cell when num_steps is
\* 0, and the populations it can make of them.
MembersOf(v) ==
  {Member(seed, grow_matrix(v, seed, 0, adult_size),
          Score(v, grow_matrix(v, seed, 0, adult_size), Target(v),
                adult_size).fitness) : seed \in Grids(1, 1, Colours(v))}

Populations(v) == [1 .. MaxPop -> MembersOf(v)]

FnInit ==
  /\ variant \in Variants
  /\ population_size = MaxPop
  /\ max_births = MaxBirths
  /\ evolvability = 1
  /\ num_steps = 0
  /\ sample_size = 0
  /\ pc = "call"
  /\ population = <<>>
  /\ sample_set = <<>>
  /\ new_birth = 0
  /\ position1 = NoPos /\ position2 = NoPos
  /\ fitness1 = 0 /\ fitness2 = 0
  /\ least_fit_pos = NoPos /\ most_fit_pos = NoPos
  /\ mut_sel = Unbound /\ mut_coin = Unbound /\ child = Unbound
  /\ k = 0 /\ rescored = 0
  /\ best_fitness_so_far = 0
  /\ best_seed_so_far = Unbound /\ best_adult_so_far = Unbound
  /\ emitted = Unbound
  /\ cmp = "none" /\ replaced_pos = NoPos
  /\ replaces = 0
  /\ stale = {}
  /\ checks = 0
  /\ grows = 0
  /\ events = <<>>
  /\ \/ \E rows, cols \in 1 .. MaxSeed :
          \E seed_matrix \in Grids(rows, cols, Colours(variant)),
             d \in MutationDraws(rows, cols) :
            call = [fn |-> "mutate_seed", seed_matrix |-> seed_matrix,
                    sel |-> d.sel, coin |-> d.coin, ret |-> Unbound]
     \/ \E size \in 1 .. MaxSeed :
          \E d \in SeedDraws(size) :
            call = [fn |-> "make_seed_matrix", win1 |-> d.win1, win2 |-> d.win2,
                    tie |-> d.tie, size |-> size, ret |-> Unbound]
     \/ \E adult \in Grids(adult_size, adult_size, Colours(variant)) :
          \E target \in TargetsFor(variant, adult) :
            call = [fn |-> "compare", adult |-> adult, target |-> target,
                    size |-> adult_size, ret |-> Unbound]
     \* mutate_and_select_seed on a population as bootstrap leaves it
     \/ \E pop \in Populations(variant), size \in SampleSizes :
          \E least0, most0 \in Positions,
             samples \in [1 .. (IF SampleSizeAsserts(size, pop) THEN size ELSE 0)
                            -> Positions],
             d \in MutationDraws(1, 1) :
            call = [fn |-> "mutate_and_select_seed", population |-> pop,
                    sample_size |-> size, least0 |-> least0, most0 |-> most0,
                    samples |-> samples, sel |-> d.sel, coin |-> d.coin,
                    ret |-> Unbound]
     \* compare called with a grid or an adult_size of another size
     \/ \E size \in SizeArgs, ar, ac, tr, tc \in ShapeSizes :
          \E ca, ct \in Colours(variant) :
            /\ ~(size = RequiredSize /\ ar = RequiredSize /\ ac = RequiredSize
                   /\ tr = RequiredSize /\ tc = RequiredSize)
            /\ call = [fn |-> "compare", adult |-> UniformRect(ar, ac, ca),
                       target |-> UniformRect(tr, tc, ct),
                       size |-> size, ret |-> Unbound]

\* seed = make_seed_matrix(prob_red, prob_blue, evolvability), and the number
\* of random draws the call made.
CallMakeSeed ==
  /\ pc = "call"
  /\ call.fn = "make_seed_matrix"
  /\ call' = [call EXCEPT !.ret =
                [matrix |-> make_seed_matrix(variant, call.win1, call.win2,
                                             call.tie, call.size),
                 draws |-> make_seed_draws(call.win1, call.win2, call.size)]]
  /\ pc' = "return"
  /\ UNCHANGED <<config, events, population, bootVars, new_birth, iterVars, finalVars,
                 replaces, stale, checks, grows>>

\* new_matrix = mutate_seed(seed_matrix, prob_mutation)
CallMutateSeed ==
  /\ pc = "call"
  /\ call.fn = "mutate_seed"
  /\ call' = [call EXCEPT !.ret = mutate_seed(variant, call.seed_matrix,
                                              call.sel, call.coin)]
  /\ pc' = "return"
  /\ UNCHANGED <<config, events, population, bootVars, new_birth, iterVars, finalVars,
                 replaces, stale, checks, grows>>

\* compare(adult, target, adult_size): when its assertions pass, what it
\* returns, whether the assertion of the main program on the result passes
\* and the fitness the main program takes from it.
CallCompare ==
  /\ pc = "call"
  /\ call.fn = "compare"
  /\ IF CompareAsserts(call.adult, call.target, call.size)
     THEN /\ call' = [call EXCEPT !.ret =
                [counts |-> IF variant = "three"
                            THEN compare3(call.adult, call.target, call.size)
                            ELSE compare2(call.adult, call.target, call.size),
                 ok |-> Score(variant, call.adult, call.target, call.size).ok,
                 fitness |-> Score(variant, call.adult, call.target,
                                   call.size).fitness]]
          /\ pc' = "return"
     \* an assertion of compare fails: the call does not return
     ELSE /\ call' = call
          /\ pc' = "abort"
  /\ UNCHANGED <<config, events, population, bootVars, new_birth, iterVars, finalVars,
                 replaces, stale, checks, grows>>

\* seed = mutate_and_select_seed(population, sample_size, target,
\* prob_mutation): when its assertions pass, the positions it settled on, the
\* population as the in-place copy leaves it and the seed it returns.
CallMutateAndSelect ==
  /\ pc = "call"
  /\ call.fn = "mutate_and_select_seed"
  /\ IF SampleSizeAsserts(call.sample_size, call.population)
     THEN \E r \in {SampleLoop(call.population, call.least0, call.most0,
                               call.samples)} :
          \E pop \in {CopySeed(call.population, r.least_fit_pos,
                                r.most_fit_pos)} :
            /\ call' = [call EXCEPT !.ret =
                  [least_fit_pos |-> r.least_fit_pos,
                   most_fit_pos |-> r.most_fit_pos,
                   population |-> pop,
                   seed_matrix |-> mutate_seed(variant,
                                     ParentSeed(pop, r.least_fit_pos),
                                     call.sel, call.coin)]]
            /\ pc' = "return"
     \* an assertion on sample_size fails: the call does not return
     ELSE /\ call' = call
          /\ pc' = "abort"
  /\ UNCHANGED <<config, events, population, bootVars, new_birth, iterVars, finalVars,
                 replaces, stale, checks, grows>>

FnNext ==
  \/ CallMakeSeed
  \/ CallMutateSeed
  \/ CallCompare
  \/ CallMutateAndSelect

FnSpec == FnInit /\ [][FnNext]_vars

\* ================================================================= claims
AfterBootstrap == pc \in {"draw", "select", "mutate", "grow", "scan", "export", "done"}
BetweenIterations == pc \in {"draw", "scan", "export", "done"}

Grown(seed) == grow_matrix(variant, seed, num_steps, adult_size)
Fitness(adult) == Score(variant, adult, Target(variant), adult_size).fitness

\* The member is what growing and scoring its seed gives.
Consistent(m) == m.adult = Grown(m.seed) /\ m.fitness = Fitness(m.adult)

\* C1: once bootstrap is over the population holds exactly population_size
\* members: in the steady-state loop, after each of its iterations and in the
\* final scan and export.
C1_PopulationLength ==
  AfterBootstrap => Len(population) = population_size

\* C1 witness: the last iteration has replaced a record and the scan is over.
C1_Witness ==
  pc = "export" /\ replaces = max_births /\ max_births > 0
  /\ Len(population) = population_size

\* C2: between iterations every slot whose seed was not overwritten in place
\* since its last whole-record write has adult = grow(seed) and
\* fitness = score(adult, target).
C2_ConsistentUnlessStale ==
  BetweenIterations =>
    \A p \in Positions \ stale : Consistent(At(population, p))

\* C2 witness: after an iteration one slot carries a seed that its adult was
\* not grown from, and another slot was written as a whole and is consistent.
C2_Witness ==
  /\ pc = "draw" /\ new_birth > 0
  /\ \E p \in stale : At(population, p).adult # Grown(At(population, p).seed)
  /\ replaced_pos \in Positions \ stale

\* C3: after bootstrap the stored fitness of every slot is the score of the
\* stored adult, stale seed or not, and the fitness the final scan recomputes
\* for a member is the stored one.
C3_FitnessMatchesAdult ==
  /\ \A i \in 1 .. Len(population) : population[i].fitness = Fitness(population[i].adult)
  /\ (pc = "scan" /\ k > 0) => rescored = At(population, k - 1).fitness

\* C3 witness: the scan has rescored a member whose seed is stale and whose
\* fitness is not the fitness its seed would get.
C3_Witness ==
  /\ pc = "scan" /\ k > 0
  /\ (k - 1) \in stale
  /\ At(population, k - 1).fitness # Fitness(Grown(At(population, k - 1).seed))
  /\ rescored # 0

\* C4: an iteration changes the population in two places only.  The draw of
\* the pair and the mutation change nothing; the in-place copy sets the seed of
\* slot least_fit_pos to the seed slot most_fit_pos held and leaves that slot's
\* adult and fitness and every other slot alone; the replace writes the whole
\* record (returned seed, its adult, its fitness) into the loser's slot and
\* leaves every other slot alone.
C4_IterationFrame ==
  [][ /\ (pc \in {"draw", "mutate"}) => population' = population
      /\ (pc = "select" /\ pc' = "mutate") =>
            /\ Len(population') = Len(population)
            /\ \A p \in Positions :
                 IF p = least_fit_pos'
                 THEN /\ At(population', p).seed = At(population, most_fit_pos').seed
                      /\ At(population', p).adult = At(population, p).adult
                      /\ At(population', p).fitness = At(population, p).fitness
                 ELSE At(population', p) = At(population, p)
      /\ (pc = "grow" /\ pc' = "draw") =>
            /\ Len(population') = Len(population)
            /\ \A p \in Positions :
                 IF p = replaced_pos'
                 THEN At(population', p) = Member(child, Grown(child), Fitness(Grown(child)))
                 ELSE At(population', p) = At(population, p)
    ]_vars

\* C4 witness: the first iteration is over, the slot whose seed was copied in
\* place is not the replaced slot, and a third slot is as bootstrap left it.
C4_Witness ==
  /\ pc = "draw" /\ new_birth = 1
  /\ replaced_pos \in Positions
  /\ \E p \in stale : /\ p # replaced_pos
                      /\ At(population, p).adult # Grown(At(population, p).seed)
  /\ \E q \in Positions \ stale : q # replaced_pos

\* C5: when the two drawn members differ in stored fitness, the replaced slot
\* is the drawn index of smaller fitness and not the one of larger fitness.
C5_LoserIsLessFit ==
  (replaced_pos # NoPos) =>
    /\ cmp = "gt" => (replaced_pos = position2 /\ replaced_pos # position1)
    /\ cmp = "lt" => (replaced_pos = position1 /\ replaced_pos # position2)

\* C5 witness: the first drawn member was less fit and its slot was replaced.
C5_Witness ==
  pc = "draw" /\ cmp = "lt" /\ replaced_pos = position1 /\ position1 # position2

\* C6 as stated: when the two drawn members are equally fit (the same index
\* drawn twice included) the replaced slot is the second drawn index.
C6_TieReplacesSecond ==
  (replaced_pos # NoPos /\ cmp = "eq") => replaced_pos = position2

\* C6 amended: when the two drawn members are equally fit the replaced slot is
\* the first drawn index, position1 (the else branch of the comparison).
C6_TieReplacesFirst ==
  (replaced_pos # NoPos /\ cmp = "eq") => replaced_pos = position1

\* C6 witness: two different slots of equal fitness were drawn and the first
\* was replaced.
C6_Witness ==
  pc = "draw" /\ cmp = "eq" /\ position1 # position2 /\ replaced_pos = position1

Max(S) == CHOOSE x \in S : \A y \in S : y <= x
Min(S) == CHOOSE x \in S : \A y \in S : x <= y

\* Index of the last drawn sample of maximum fitness.
LastBest(samples) ==
  LET best == Max({samples[i].fitness : i \in 1 .. Len(samples)})
  IN  Max({i \in 1 .. Len(samples) : samples[i].fitness = best})

\* C8: the member bootstrap appends for a slot is, of the sample_size samples
\* drawn for it, the one of maximum fitness, and the last drawn of those that
\* share the maximum.
C8_BootstrapKeepsLastBest ==
  (pc = "boot" /\ Len(population) > 0) =>
    /\ Len(sample_set) = sample_size
    /\ population[Len(population)] = sample_set[LastBest(sample_set)]

\* C8 witness: two samples with different seeds share the maximum and the
\* later one was appended.
C8_Witness ==
  /\ pc = "boot" /\ Len(population) > 0
  /\ \E i, j \in 1 .. Len(sample_set) :
       /\ i < j /\ j = LastBest(sample_set)
       /\ sample_set[i].fitness = sample_set[j].fitness
       /\ sample_set[i].seed # sample_set[j].seed
       /\ population[Len(population)].seed = sample_set[j].seed

\* C9 as stated: when the scan is over best_fitness_so_far is the maximum
\* fitness of the population and the best seed and adult are those of the
\* lowest-index member that has it.
C9_BestIsMaximum ==
  pc = "export" =>
    LET best == Max({At(population, p).fitness : p \in Positions})
        first == Min({p \in Positions : At(population, p).fitness = best})
    IN  /\ best_fitness_so_far = best
        /\ best_seed_so_far = At(population, first).seed
        /\ best_adult_so_far = At(population, first).adult

\* C10: in a run whose configuration passes the assertions of
\* mutate_and_select_seed, the steady-state loop makes exactly max_births
\* passes, each with one whole-record replace, and then the scan starts;
\* nothing in the population shortens or extends the loop.
C10_ExactlyMaxBirths ==
  /\ [](pc \in {"draw", "select", "mutate", "grow"} =>
          (replaces = new_birth /\ new_birth <= max_births))
  /\ [](pc \in {"scan", "export", "done"} =>
          (replaces = max_births /\ new_birth = max_births))
  /\ ((pc = "draw" /\ new_birth = 0 /\ sample_size <= population_size)
        ~> (pc = "scan"))

\* C10 witness: the scan starts after max_births replaces.
C10_Witness ==
  pc = "scan" /\ k = 0 /\ replaces = max_births /\ max_births > 0

\* The phase of the run: 0 before anything is made (UNINITIALIZED), 1 while
\* generation zero is built (BOOTSTRAPPING), 2 in the birth/death loop
\* (STEADY_STATE), 3 from the start of the final scan on (FINALIZED).
Phase ==
  IF pc \in {"boot", "sample"}
  THEN (IF pc = "boot" /\ population = <<>> THEN 0 ELSE 1)
  ELSE IF pc \in {"draw", "select", "mutate", "grow"} THEN 2
  ELSE 3

\* C11: a run that does not abort goes through the phases UNINITIALIZED,
\* BOOTSTRAPPING, STEADY_STATE, FINALIZED one after the other and never back;
\* the steady-state loop is entered, and each of its iterations starts, with
\* all population_size slots filled; the final scan starts when the
\* max_births iterations are over; and from the start of the scan on no
\* population slot is written.
C11_PhaseOrder ==
  [][ (pc' # "abort") =>
        /\ Phase' \in {Phase, Phase + 1}
        /\ (Phase = 1 /\ Phase' = 2) => Len(population') = population_size
        /\ (pc = "draw" /\ pc' = "select") => Len(population) = population_size
        /\ (Phase = 2 /\ Phase' = 3) =>
              (new_birth = max_births /\ replaces = max_births /\ pc = "draw")
        /\ (Phase = 3) => (Phase' = 3 /\ population' = population)
    ]_vars

\* C11 witness: a run has gone through bootstrap, max_births iterations, the
\* scan and the export.
C11_Witness ==
  /\ pc = "done" /\ Phase = 3
  /\ Len(population) = population_size
  /\ replaces = max_births /\ max_births > 0
  /\ emitted # Unbound

\* The rows and columns of a grid.
Rows(m) == Cardinality(DOMAIN m)
Cols(m) == Cardinality(DOMAIN m[0])

MutateReturned == pc = "return" /\ call.fn = "mutate_seed"
CompareReturned == pc = "return" /\ call.fn = "compare"

\* C13 as stated: in the two-colour script a selected cell changes only when
\* its coin succeeds: a selected white cell becomes black on success and stays
\* white otherwise, a selected black cell becomes white on success and stays
\* black otherwise.
C13_CoinDecidesFlip ==
  (MutateReturned /\ variant = "two") =>
    \A i \in Idx(Rows(call.seed_matrix)), j \in Idx(Cols(call.seed_matrix)) :
      call.sel[i][j] =>
        call.ret[i][j] = IF call.coin[i][j]
                         THEN (IF call.seed_matrix[i][j] = white THEN black ELSE white)
                         ELSE call.seed_matrix[i][j]

\* The outcome of the coin of cell (i, j) turned over.
OtherCoin(coin, i, j) == [coin EXCEPT ![i][j] = ~@]

\* C14: in the three-colour script every selected cell gets a colour that is
\* not the one it had, and the other outcome of its coin gives the remaining
\* third colour; so a seed that is all white and selected everywhere comes
\* back without a white cell.
C14_SelectedCellChanges ==
  (MutateReturned /\ variant = "three") =>
    /\ \A i \in Idx(Rows(call.seed_matrix)), j \in Idx(Cols(call.seed_matrix)) :
          call.sel[i][j] =>
            LET other == mutate_seed(variant, call.seed_matrix, call.sel,
                                     OtherCoin(call.coin, i, j))[i][j]
            IN  {call.seed_matrix[i][j], call.ret[i][j], other} = {white, red, blue}
    /\ ((\A i \in Idx(Rows(call.seed_matrix)), j \in Idx(Cols(call.seed_matrix)) :
            call.seed_matrix[i][j] = white /\ call.sel[i][j])
         => \A i \in Idx(Rows(call.ret)), j \in Idx(Cols(call.ret)) :
              call.ret[i][j] \in {red, blue})

\* C14 witness: an all-white seed of MaxSeed x MaxSeed cells, every cell
\* selected, came back with red and blue cells and no white one.
C14_Witness ==
  /\ MutateReturned /\ variant = "three"
  /\ Rows(call.seed_matrix) = MaxSeed /\ Cols(call.seed_matrix) = MaxSeed
  /\ \A i, j \in Idx(MaxSeed) : call.seed_matrix[i][j] = white /\ call.sel[i][j]
  /\ \E i, j \in Idx(MaxSeed) : call.ret[i][j] = red
  /\ \E i, j \in Idx(MaxSeed) : call.ret[i][j] = blue
  /\ \A i, j \in Idx(MaxSeed) : call.ret[i][j] # white

\* C15: in both scripts a call of mutate_seed leaves its argument as it was
\* and returns a grid with the rows and columns of the argument in which
\* every cell that was not selected has the colour it had in the argument;
\* when no cell is selected the result equals the argument.
C15_MutateFrame ==
  [][ (pc = "call" /\ call.fn = "mutate_seed") =>
        /\ call'.seed_matrix = call.seed_matrix
        /\ DOMAIN call'.ret = DOMAIN call.seed_matrix
        /\ \A i \in DOMAIN call.seed_matrix :
              /\ DOMAIN call'.ret[i] = DOMAIN call.seed_matrix[i]
              /\ \A j \in DOMAIN call.seed_matrix[i] :
                    ~call.sel[i][j] => call'.ret[i][j] = call.seed_matrix[i][j]
        /\ ((\A i \in DOMAIN call.sel : \A j \in DOMAIN call.sel[i] : ~call.sel[i][j])
             => call'.ret = call.seed_matrix)
    ]_vars

\* C15 witness: of a seed of one row and MaxSeed columns the first cell was
\* selected and changed and the last, which is not white, was copied.
C15_Witness ==
  /\ MutateReturned
  /\ Rows(call.seed_matrix) = 1 /\ Cols(call.seed_matrix) = MaxSeed
  /\ MaxSeed > 1
  /\ call.sel[0][0] /\ call.ret[0][0] # call.seed_matrix[0][0]
  /\ ~call.sel[0][MaxSeed - 1]
  /\ call.seed_matrix[0][MaxSeed - 1] # white
  /\ call.ret[0][MaxSeed - 1] = call.seed_matrix[0][MaxSeed - 1]

\* What one cell is worth in the three-colour script: a point when adult and
\* target have the same colour, a point off when they have the two different
\* colours, nothing when either is white.
Points3(a, t) ==
  IF a = white \/ t = white THEN 0 ELSE IF a = t THEN 1 ELSE 0 - 1

\* The points of the first n cells, row by row.
RECURSIVE SumPoints3(_, _, _, _)
SumPoints3(adult, target, size, n) ==
  IF n = 0 THEN 0
  ELSE SumPoints3(adult, target, size, n - 1)
       + Points3(adult[(n - 1) \div size][(n - 1) % size],
                 target[(n - 1) \div size][(n - 1) % size])

\* C16: for every pair of grids of the required size the three-colour compare
\* returns as fitness the red-on-red and blue-on-blue cells minus the
\* blue-on-red and red-on-blue cells, a cell with white in the adult or in the
\* target counting nothing; the true counts are not negative, the false
\* counts not positive, the fitness is the sum of the four counts, and the
\* assertions of compare and of the main program on the result pass.
C16_ThreeColourFitness ==
  (CompareReturned /\ variant = "three") =>
    LET c == call.ret.counts
    IN  /\ c.fitness = SumPoints3(call.adult, call.target, call.size,
                                  call.size * call.size)
        /\ call.ret.fitness = c.fitness
        /\ c.true_blue >= 0 /\ c.true_red >= 0
        /\ c.false_blue <= 0 /\ c.false_red <= 0
        /\ c.fitness = c.true_blue + c.true_red + c.false_blue + c.false_red
        /\ c.ok /\ call.ret.ok

\* C16 witness: an adult scored against the three bands has cells of all
\* four kinds and a white cell, and its fitness is negative.
C16_Witness ==
  /\ CompareReturned /\ variant = "three"
  /\ call.target = target_3
  /\ call.ret.counts.true_blue > 0 /\ call.ret.counts.true_red > 0
  /\ call.ret.counts.false_blue < 0 /\ call.ret.counts.false_red < 0
  /\ \E i, j \in Idx(adult_size) : call.adult[i][j] = white
  /\ call.ret.fitness < 0

\* What one cell is worth in the two-colour script: a black cell of the adult
\* a point on a black cell of the target and a point off on a white one, a
\* white cell of the adult nothing.
Points2(a, t) ==
  IF a = black THEN (IF t = black THEN 1 ELSE 0 - 1) ELSE 0

RECURSIVE SumPoints2(_, _, _, _)
SumPoints2(adult, target, size, n) ==
  IF n = 0 THEN 0
  ELSE SumPoints2(adult, target, size, n - 1)
       + Points2(adult[(n - 1) \div size][(n - 1) % size],
                 target[(n - 1) \div size][(n - 1) % size])

\* C17: for every pair of grids of the required size the fitness of the
\* two-colour script is the number of cells black in adult and target minus
\* the number of cells black in the adult and white in the target, and
\* giving the target another colour at a cell where the adult is white leaves
\* the fitness as it is.
C17_TwoColourFitness ==
  (CompareReturned /\ variant = "two") =>
    /\ call.ret.ok
    /\ call.ret.fitness = SumPoints2(call.adult, call.target, call.size,
                                     call.size * call.size)
    /\ \A i, j \in Idx(call.size) :
          call.adult[i][j] = white =>
            \A c \in Colours(variant) :
              Score(variant, call.adult, [call.target EXCEPT ![i][j] = c],
                    call.size).fitness = call.ret.fitness

\* C17 witness: an adult scored against the four boxes has black cells on
\* black and on white and white cells on black and on white.
C17_Witness ==
  /\ CompareReturned /\ variant = "two"
  /\ call.target = target_1
  /\ call.ret.counts.black_on_black > 0 /\ call.ret.counts.black_on_white > 0
  /\ \E i, j \in Idx(adult_size) : call.adult[i][j] = white /\ call.target[i][j] = black
  /\ \E i, j \in Idx(adult_size) : call.adult[i][j] = white /\ call.target[i][j] = white
  /\ call.ret.fitness = call.ret.counts.black_on_black - call.ret.counts.black_on_white

\* The cells of a square grid that hold one of the colours.
CellsOf(grid, size, colours) ==
  {c \in Idx(size) \X Idx(size) : grid[c[1]][c[2]] \in colours}

\* C18: a grid of the required size scored against itself gets as fitness
\* the number of its cells that are not white and no false count: in the
\* three-colour script the true counts are the numbers of blue and of red
\* cells, in the two-colour script black_on_white is 0; a grid without a
\* white cell scores the number of its cells.
C18_SelfScore ==
  (CompareReturned /\ call.target = call.adult) =>
    LET c == call.ret.counts
        live == Cardinality(CellsOf(call.adult, call.size, Colours(variant) \ {white}))
    IN  /\ call.ret.ok
        /\ call.ret.fitness = live
        /\ variant = "three" =>
              /\ c.true_blue = Cardinality(CellsOf(call.adult, call.size, {blue}))
              /\ c.true_red = Cardinality(CellsOf(call.adult, call.size, {red}))
              /\ c.false_blue = 0 /\ c.false_red = 0
        /\ variant = "two" =>
              /\ c.black_on_black = live
              /\ c.black_on_white = 0
        /\ (CellsOf(call.adult, call.size, {white}) = {}) =>
              call.ret.fitness = call.size * call.size

\* C18 witness: a grid of red and blue cells and no white one was scored
\* against itself and got one point for each cell.
C18_Witness ==
  /\ CompareReturned /\ variant = "three"
  /\ call.target = call.adult
  /\ CellsOf(call.adult, adult_size, {white}) = {}
  /\ CellsOf(call.adult, adult_size, {red}) # {}
  /\ CellsOf(call.adult, adult_size, {blue}) # {}
  /\ call.ret.fitness = adult_size * adult_size
  /\ call.ret.counts.true_red + call.ret.counts.true_blue = adult_size * adult_size

\* C19 as stated: a run whose sample_size is above population_size or below 0
\* never calls grow_matrix, and no run evaluates the assertions on
\* sample_size more than once.
C19_CheckedOnceAtStartup ==
  /\ ~(sample_size <= population_size /\ sample_size >= 0) => grows = 0
  /\ checks <= 1

\* C19 amended: the assertions on sample_size are evaluated at every call of
\* mutate_and_select_seed, once in each iteration.  A run with
\* sample_size > population_size aborts on them at the first call, in the
\* first iteration: bootstrap has then grown population_size * sample_size
\* seeds and filled the population, and the loop has written no slot.  A run
\* with sample_size < 0 never evaluates them: it grows nothing and does not
\* get past bootstrap.
C19_CheckedAtEveryCall ==
  /\ [](checks = new_birth
                  + (IF pc \in {"mutate", "grow"} THEN 1 ELSE 0)
                  + (IF pc = "abort" /\ sample_size > population_size THEN 1 ELSE 0))
  /\ [](sample_size > population_size =>
          /\ pc \notin {"mutate", "grow", "scan", "export", "done"}
          /\ pc = "abort" =>
                /\ checks = 1
                /\ grows = population_size * sample_size
                /\ Len(population) = population_size
                /\ new_birth = 0 /\ replaces = 0 /\ stale = {})
  /\ [](sample_size < 0 =>
          (checks = 0 /\ grows = 0 /\ pc \in {"boot", "sample", "abort"}))
  /\ ((sample_size > population_size) ~> (pc = "abort" /\ checks = 1))

\* C19 witness: a run with sample_size > population_size has aborted on the
\* assertion after a complete bootstrap.
C19_Witness ==
  /\ pc = "abort" /\ sample_size > population_size
  /\ checks = 1
  /\ grows = population_size * sample_size /\ grows > 0
  /\ Len(population) = population_size

\* C20 as stated: a run with sample_size = 0 does not abort: bootstrap fills
\* the population_size slots, and the loop and the final scan are reached
\* with all of them filled.
C20_ZeroSampleSizeRuns ==
  sample_size = 0 =>
    /\ pc # "abort"
    /\ pc \in {"draw", "select", "mutate", "grow", "scan", "export", "done"} =>
          Len(population) = population_size

\* C21: a call of compare with adult_size other than the required size, or
\* with an adult or a target whose number of rows or length of the first row
\* is not the required size, ends in a failed assertion: it returns nothing,
\* no fitness comes of it and no population slot is written; a call whose
\* arguments all have the required size returns.
C21_CompareAsserts ==
  [][ (pc = "call" /\ call.fn = "compare") =>
        IF /\ call.size = RequiredSize
           /\ Rows(call.adult) = RequiredSize /\ Cols(call.adult) = RequiredSize
           /\ Rows(call.target) = RequiredSize /\ Cols(call.target) = RequiredSize
        THEN pc' = "return" /\ call'.ret # Unbound
        ELSE /\ pc' = "abort"
             /\ call'.ret = Unbound
             /\ population' = population
    ]_vars

\* C21 witness: compare was called with an adult of the required number of
\* rows whose rows are one cell short, everything else right, and aborted.
C21_Witness ==
  /\ pc = "abort" /\ call.fn = "compare"
  /\ call.size = RequiredSize
  /\ Rows(call.adult) = RequiredSize /\ Cols(call.adult) = RequiredSize - 1
  /\ Rows(call.target) = RequiredSize /\ Cols(call.target) = RequiredSize
  /\ call.ret = Unbound

SeedReturned == pc = "return" /\ call.fn = "make_seed_matrix"

\* The cells of a seed where both biased coins won.
BothWin == {c \in Idx(call.size) \X Idx(call.size) :
              call.win1[c[1]][c[2]] /\ call.win2[c[1]][c[2]]}

\* C22: the three-colour make_seed_matrix returns a size x size grid of
\* white, red and blue cells: a cell is white iff neither coin wins, red iff
\* only the red coin wins or both win and the tie-break coin fails (>= 0.5),
\* blue iff only the blue coin wins or both win and the tie-break coin
\* succeeds (< 0.5); the tie-break coin is drawn for the cells where both
\* win and for no other.
C22_ThreeColourSeed ==
  (SeedReturned /\ variant = "three") =>
    /\ DOMAIN call.ret.matrix = Idx(call.size)
    /\ \A i \in Idx(call.size) :
          /\ DOMAIN call.ret.matrix[i] = Idx(call.size)
          /\ \A j \in Idx(call.size) :
                LET cell == call.ret.matrix[i][j]
                    r == call.win1[i][j]
                    b == call.win2[i][j]
                    t == call.tie[i][j]
                IN  /\ cell \in {white, red, blue}
                    /\ cell = white <=> (~r /\ ~b)
                    /\ cell = red <=> ((r /\ ~b) \/ (r /\ b /\ ~t))
                    /\ cell = blue <=> ((b /\ ~r) \/ (r /\ b /\ t))
    /\ call.ret.draws = 2 * call.size * call.size + Cardinality(BothWin)

\* C22 witness: a seed of MaxSeed x MaxSeed cells has a white cell, a red and
\* a blue cell that won a tie, and a cell that won alone.
C22_Witness ==
  /\ SeedReturned /\ variant = "three" /\ call.size = MaxSeed
  /\ \E c \in BothWin : call.ret.matrix[c[1]][c[2]] = red
  /\ \E c \in BothWin : call.ret.matrix[c[1]][c[2]] = blue
  /\ \E i, j \in Idx(MaxSeed) : call.ret.matrix[i][j] = white
  /\ \E i, j \in Idx(MaxSeed) :
       call.ret.matrix[i][j] # white /\ <<i, j>> \notin BothWin
  /\ call.ret.draws = 2 * MaxSeed * MaxSeed + 2

\* C23 as stated: the two-colour make_seed_matrix makes one draw for each
\* cell, and the cell is black iff that draw succeeds.
C23_OneDrawPerCell ==
  (SeedReturned /\ variant = "two") =>
    /\ call.ret.draws = call.size * call.size
    /\ \A i, j \in Idx(call.size) :
          call.ret.matrix[i][j] = black <=> call.win2[i][j]

\* C23 amended: the two-colour make_seed_matrix makes two biased draws for
\* each cell, one for white and one for black, and a third, the tie-break
\* coin, for the cells where both succeed; the cell is black iff the draw
\* for black succeeds and the draw for white fails or the tie-break coin
\* succeeds (< 0.5), and white otherwise.
C23_TwoOrThreeDrawsPerCell ==
  (SeedReturned /\ variant = "two") =>
    /\ call.ret.draws = 2 * call.size * call.size + Cardinality(BothWin)
    /\ DOMAIN call.ret.matrix = Idx(call.size)
    /\ \A i \in Idx(call.size) :
          /\ DOMAIN call.ret.matrix[i] = Idx(call.size)
          /\ \A j \in Idx(call.size) :
                call.ret.matrix[i][j] =
                  IF call.win2[i][j] /\ (~call.win1[i][j] \/ call.tie[i][j])
                  THEN black ELSE white

\* C23 witness: in a seed of MaxSeed x MaxSeed cells the draw for black
\* succeeded in two cells that are white and black after their tie-break,
\* and three draws were made for each of them.
C23_Witness ==
  /\ SeedReturned /\ variant = "two" /\ call.size = MaxSeed
  /\ \E c \in BothWin : call.ret.matrix[c[1]][c[2]] = white
  /\ \E c \in BothWin : call.ret.matrix[c[1]][c[2]] = black
  /\ Cardinality(BothWin) = 2
  /\ call.ret.draws = 2 * MaxSeed * MaxSeed + 2

\* ---------------------------------------------------------------------- C24
\* C24: at finalization the seed reported as best grows into the adult
\* reported as best: from the end of the scan on, growing best_seed_so_far
\* gives best_adult_so_far, and the adult that is exported is
\* best_adult_so_far, whose fitness is best_fitness_so_far.
C24_BestSeedGrowsBestAdult ==
  /\ (pc \in {"export", "done"} /\ best_seed_so_far # Unbound) =>
        Grown(best_seed_so_far) = best_adult_so_far
  /\ pc = "done" =>
        /\ emitted.seed = best_seed_so_far
        /\ emitted.adult = best_adult_so_far
        /\ Fitness(emitted.adult) = best_fitness_so_far

\* ---------------------------------------------------------------------- C25
SelectReturned == pc = "return" /\ call.fn = "mutate_and_select_seed"

\* The indices in the order drawn that compete for least fit and for most fit.
LeastDrawn == <<call.least0>> \o call.samples
MostDrawn == <<call.most0>> \o call.samples

\* The stored fitness of slot pos of the population passed to the call.
Stored(pos) == At(call.population, pos).fitness

\* The earliest drawn index of a sequence whose stored fitness is f.
EarliestWith(drawn, f) ==
  drawn[Min({i \in 1 .. Len(drawn) : Stored(drawn[i]) = f})]

\* C25: when sample_size >= 1, mutate_and_select_seed ends its sampling loop
\* with the stored fitness at least_fit_pos <= the stored fitness at
\* most_fit_pos, so the in-place copy, which changes nothing but the seed at
\* least_fit_pos, never moves a seed from a slot of lower stored fitness into
\* a slot of strictly higher stored fitness; least_fit_pos is the earliest
\* drawn index of minimum fitness among the first initial draw and the
\* samples, most_fit_pos the earliest drawn index of maximum fitness among
\* the second initial draw and the samples.
C25_LeastBelowMost ==
  (SelectReturned /\ call.sample_size >= 1) =>
    /\ Stored(call.ret.least_fit_pos) <= Stored(call.ret.most_fit_pos)
    /\ call.ret.least_fit_pos =
         EarliestWith(LeastDrawn,
                      Min({Stored(LeastDrawn[i]) : i \in 1 .. Len(LeastDrawn)}))
    /\ call.ret.most_fit_pos =
         EarliestWith(MostDrawn,
                      Max({Stored(MostDrawn[i]) : i \in 1 .. Len(MostDrawn)}))
    /\ \A p \in Positions :
         /\ At(call.ret.population, p).adult = At(call.population, p).adult
         /\ At(call.ret.population, p).fitness = Stored(p)
         /\ At(call.ret.population, p).seed # At(call.population, p).seed =>
              /\ p = call.ret.least_fit_pos
              /\ At(call.ret.population, p).seed =
                   At(call.population, call.ret.most_fit_pos).seed
              /\ Stored(call.ret.most_fit_pos) >= Stored(p)

\* C25 witness: two samples were drawn from different slots; the second ties
\* the first for the minimum, below the initial draw, and the first was kept;
\* the initial draw for most fit was kept, and its seed moved into the least
\* fit slot, of strictly lower fitness.
C25_Witness ==
  /\ SelectReturned /\ call.sample_size = 2
  /\ call.samples[1] # call.samples[2]
  /\ Stored(call.samples[1]) = Stored(call.samples[2])
  /\ Stored(call.least0) > Stored(call.samples[1])
  /\ call.ret.least_fit_pos = call.samples[1]
  /\ call.ret.most_fit_pos = call.most0
  /\ Stored(call.ret.least_fit_pos) < Stored(call.ret.most_fit_pos)
  /\ At(call.ret.population, call.ret.least_fit_pos).seed
       # At(call.population, call.ret.least_fit_pos).seed

\* ---------------------------------------------------------------------- C26
\* What one iteration with n samples draws and calls, in order.
IterationEvents(n) ==
  <<"position1", "position2", "least_fit_pos", "most_fit_pos">>
    \o [i \in 1 .. n |-> "pos"] \o <<"mutate_seed", "grow_matrix">>

IsPrefix(s, t) ==
  Len(s) <= Len(t) /\ \A i \in 1 .. Len(s) : s[i] = t[i]

\* The index draws among the events so far.
IndexDrawsSoFar ==
  {i \in 1 .. Len(events) : events[i] \notin {"mutate_seed", "grow_matrix"}}

\* C26: each steady-state iteration draws exactly 4 + sample_size population
\* indices, in the order position1, position2, initial least-fit index,
\* initial most-fit index, then the sample_size sample indices, and all of
\* them are drawn before the mutation draws of mutate_seed and before the call
\* of grow_matrix of that iteration.
C26_IndexDrawsFirst ==
  /\ IsPrefix(events, IterationEvents(sample_size))
  /\ pc = "mutate" =>
        /\ Cardinality(IndexDrawsSoFar) = 4 + sample_size
        /\ Len(events) = 4 + sample_size
  /\ pc = "grow" =>
        /\ Cardinality(IndexDrawsSoFar) = 4 + sample_size
        /\ events[Len(events)] = "mutate_seed"
  /\ (pc = "draw" /\ new_birth > 0) =>
        /\ events = IterationEvents(sample_size)
        /\ Cardinality(IndexDrawsSoFar) = 4 + sample_size

\* C26 witness: the last iteration of a run with MaxSample samples is over:
\* 4 + MaxSample indices were drawn, then mutate_seed and grow_matrix ran.
C26_Witness ==
  /\ pc = "draw" /\ new_birth = max_births /\ max_births > 0
  /\ sample_size = MaxSample /\ MaxSample >= 1
  /\ Len(events) = 6 + MaxSample
  /\ events[4 + MaxSample] = "pos"
  /\ events[5 + MaxSample] = "mutate_seed"
  /\ events[6 + MaxSample] = "grow_matrix"

====
